---- MODULE Spec2Model ----
(***************************************************************************)
(* State-machine model of the MITRE ATT&CK matrix backend:                 *)
(*   - the coverage aggregation queries of blueprints/matrix.py,           *)
(*     blueprints/statistics.py and blueprints/techniques.py, evaluated    *)
(*     over the techniques / tactics / technique_tactics /                 *)
(*     correlation_rules tables;                                           *)
(*   - the session authentication of utils/auth.py and the user endpoints  *)
(*     of blueprints/users.py;                                             *)
(*   - the comment endpoints of blueprints/comments.py.                    *)
(* SQL is modelled by what it computes: joins are sets of joined rows,     *)
(* LEFT JOIN pads with a NULL row, COUNT(DISTINCT ..) is the cardinality   *)
(* of the set of non-NULL values, and conditions are three-valued.         *)
(***************************************************************************)
EXTENDS Bags, FiniteSets, Integers, Sequences, TLC

VARIABLES tactics, techniques, technique_tactics, correlation_rules,
          comments, users, user_sessions, issued, now, utc_offset,
          response, pc

vars == <<tactics, techniques, technique_tactics, correlation_rules,
          comments, users, user_sessions, issued, now, utc_offset,
          response, pc>>

dbVars == <<tactics, techniques, technique_tactics, correlation_rules,
           comments>>
authVars == <<users, user_sessions, issued, now, utc_offset>>

----------------------------------------------------------------------------
(* Bounds of the model *)

\* largest number of rows of correlation_rules
MaxRules == 2
\* largest number of session tokens the server hands out
MaxSessions == 2
\* last day of the server clock
MaxTime == 2
\* largest number of active rules one technique has of its own in the
\* tables of the coverage-level specification
MaxLevelRules == 3
\* largest number of rows of comments
MaxComments == 2

\* the clocks are read in ticks of six hours
TicksPerDay == 4

----------------------------------------------------------------------------
(* SQL values *)

\* the row a LEFT JOIN produces when nothing matches
NullRow == [null |-> TRUE]
IsNull(r) == r = NullRow

\* three-valued truth: "T", "F", "U" (unknown, the result of comparing NULL)
SqlAnd(a, b) == IF a = "F" \/ b = "F" THEN "F"
                ELSE IF a = "U" \/ b = "U" THEN "U" ELSE "T"
SqlOr(a, b) == IF a = "T" \/ b = "T" THEN "T"
               ELSE IF a = "U" \/ b = "U" THEN "U" ELSE "F"
SqlBool(b) == IF b THEN "T" ELSE "F"

\* rows of a LEFT JOIN: the matching rows, or one NULL row
LeftJoin(S) == IF S = {} THEN {NullRow} ELSE S

\* the pattern without its dot, x LIKE CONCAT(p, '%') : x starts with p
LikeConcatDot_NoDot(x, p) ==
    /\ Len(x) >= Len(p) + 1
    /\ SubSeq(x, 1, Len(p)) = p

\* x LIKE CONCAT(p, '.%') : x starts with p followed by a dot
LikeConcatDot(x, p) ==
    /\ Len(x) >= Len(p) + 1
    /\ SubSeq(x, 1, Len(p)) = p
    /\ x[Len(p) + 1] = "."

\* x LIKE '%.%' and Python's  "." in x
HasDot(x) == \E i \in 1..Len(x) : x[i] = "."

\* what a division by zero leaves in the place of a percentage: the
\* exception ends the handler, whose except clause answers 500
ZeroDivisionError == 0 - 1

\* round(c / t * 100, 1) in tenths of a percent (no tie arises for t < 16)
RoundPercent(c, t) ==
    IF t = 0 THEN ZeroDivisionError ELSE (2000 * c + t) \div (2 * t)

\* round(c / t * 100, 2) in hundredths of a percent
RoundPercent2(c, t) ==
    IF t = 0 THEN ZeroDivisionError ELSE (20000 * c + t) \div (2 * t)

----------------------------------------------------------------------------
(* The catalogue the tables are drawn from *)

T1 == <<"T", "1">>
T1_1 == <<"T", "1", ".", "1">>
T11 == <<"T", "1", "1">>
AttackIds == {T1, T1_1, T11}

Severities == {"high", "low"}
SeverityBuckets == {"critical", "high", "medium", "low"}
RuleStatuses == {"active", "deleted"}

\* a row of correlation_rules without its id
RuleRows == [technique_id : AttackIds, active : BOOLEAN,
             status : RuleStatuses, severity : Severities]

\* the rows the synchronisation brings in: any rule of T1 and T1.1, and the
\* live high rules of T11
SyncRows ==
    {r \in RuleRows :
        r.technique_id = T11 => (r.status = "active" /\ r.severity = "high")}

\* the rows of correlation_rules; the id of a rule is the pair <<row, k>>
Rules(bag) ==
    UNION { { [id |-> <<r, k>>, technique_id |-> r.technique_id,
               active |-> r.active, status |-> r.status,
               severity |-> r.severity] : k \in 1..bag[r] } : r \in DOMAIN bag }

TacticRows ==
    { [id |-> "TA0011", x_mitre_shortname |-> "command-and-control"],
      [id |-> "TA0010", x_mitre_shortname |-> "exfiltration"],
      [id |-> "TA0001", x_mitre_shortname |-> "initial-access"],
      [id |-> "TA9999", x_mitre_shortname |-> "custom-tactic"] }

Platforms(attack_id) ==
    IF attack_id = T1 THEN {"Windows"}
    ELSE IF attack_id = T1_1 THEN {"Windows", "Linux"}
    ELSE {"Linux"}

\* techniques rows: the primary key id, the attack_id and the two flags
TechniqueRow(pk, aid, rev, dep) ==
    [id |-> pk, attack_id |-> aid, revoked |-> rev, deprecated |-> dep,
     platforms |-> Platforms(aid)]

TechPk(aid) == IF aid = T1 THEN "u1" ELSE IF aid = T1_1 THEN "u2" ELSE "u3"

\* technique_tactics rows
Links ==
    { [technique_id |-> "u1", tactic_id |-> "TA0011"],
      [technique_id |-> "u1", tactic_id |-> "TA0010"],
      [technique_id |-> "u2", tactic_id |-> "TA0011"],
      [technique_id |-> "u3", tactic_id |-> "TA0010"] }

----------------------------------------------------------------------------
(* Helpers over finite sets *)

RECURSIVE SumOver(_, _)
\* the sum of f[x] for x in S
SumOver(S, f) ==
    IF S = {} THEN 0
    ELSE LET x == CHOOSE y \in S : TRUE IN f[x] + SumOver(S \ {x}, f)

RECURSIVE OrderBy(_, _)
\* the results an ORDER BY key[row] ASC can return: ties in any order
OrderBy(S, key) ==
    IF S = {} THEN {<<>>}
    ELSE LET first == {x \in S : \A y \in S : key[x] <= key[y]}
         IN UNION {{<<x>> \o q : q \in OrderBy(S \ {x}, key)} : x \in first}

----------------------------------------------------------------------------
(* GET /api/matrix/ : get_ultimate_matrix *)

\* the CASE t.x_mitre_shortname ... END sort key of matrix.py
KillChainRank(shortname) ==
    CASE shortname = "initial-access" -> 1
      [] shortname = "execution" -> 2
      [] shortname = "persistence" -> 3
      [] shortname = "privilege-escalation" -> 4
      [] shortname = "defense-evasion" -> 5
      [] shortname = "credential-access" -> 6
      [] shortname = "discovery" -> 7
      [] shortname = "lateral-movement" -> 8
      [] shortname = "collection" -> 9
      [] shortname = "command-and-control" -> 10
      [] shortname = "exfiltration" -> 11
      [] shortname = "impact" -> 12
      [] OTHER -> 99

\* the joined rows of tactics_query for the tactic t
TacticsJoin(db, t, include_deprecated, platform_filter) ==
    UNION { UNION { { [tt |-> tt, tech |-> tech, cr |-> cr] :
        cr \in LeftJoin({c \in Rules(db.correlation_rules) :
                    /\ ~IsNull(tech)
                    /\ tech.attack_id = c.technique_id
                    /\ c.active /\ c.status # "deleted"}) } :
        tech \in LeftJoin({x \in db.techniques :
                    /\ ~IsNull(tt)
                    /\ tt.technique_id = x.id
                    /\ ~x.revoked
                    /\ (include_deprecated \/ ~x.deprecated)
                    /\ (platform_filter = "NULL"
                            \/ platform_filter \in x.platforms)}) } :
        tt \in LeftJoin({l \in db.technique_tactics : l.tactic_id = t.id}) }

\* one row of tactics_query: the tactic with its two aggregates
TacticsQueryRow(db, t, include_deprecated, platform_filter) ==
    LET J == TacticsJoin(db, t, include_deprecated, platform_filter) IN
    [id |-> t.id,
     x_mitre_shortname |-> t.x_mitre_shortname,
     techniques_count |->
        Cardinality({j.tt.technique_id : j \in {k \in J : ~IsNull(k.tt)}}),
     covered_techniques_count |->
        Cardinality({j.tech.id : j \in {k \in J :
            /\ ~IsNull(k.cr)
            /\ k.cr.active /\ k.cr.status # "deleted"}})]

\* the rows of tactics_query, before ORDER BY
tactics_query(db, include_deprecated, platform_filter) ==
    {TacticsQueryRow(db, t, include_deprecated, platform_filter) : t \in db.tactics}

\* cr.active = 1 and cr.status != 'deleted' on a row that may be NULL
SqlActive(cr) == IF IsNull(cr) THEN "U" ELSE SqlBool(cr.active)
SqlNotDeleted(cr) == IF IsNull(cr) THEN "U" ELSE SqlBool(cr.status # "deleted")

\* COALESCE(cr_own.severity, cr_sub.severity) = sev
SqlSeverityIs(own, sub, sev) ==
    IF ~IsNull(own) THEN SqlBool(own.severity = sev)
    ELSE IF ~IsNull(sub) THEN SqlBool(sub.severity = sev)
    ELSE "U"

\* COALESCE(cr_own.id, cr_sub.id)
CoalesceId(own, sub) == IF ~IsNull(own) THEN own.id ELSE sub.id

\* the tactics a technique is joined to (INNER JOINs and the tactic filter)
TechniqueTacticRows(db, t, tactic_filter) ==
    {tac \in db.tactics :
        /\ \E tt \in db.technique_tactics :
              tt.technique_id = t.id /\ tt.tactic_id = tac.id
        /\ (tactic_filter = "NULL" \/ tac.x_mitre_shortname = tactic_filter)}

\* the techniques that form a group of techniques_query (the WHERE clause)
TechniquesWhere(db, include_deprecated, platform_filter, tactic_filter) ==
    {t \in db.techniques :
        /\ ~t.revoked
        /\ (include_deprecated \/ ~t.deprecated)
        /\ (platform_filter = "NULL" \/ platform_filter \in t.platforms)
        /\ TechniqueTacticRows(db, t, tactic_filter) # {}}

\* LEFT JOIN correlation_rules cr_own ON t.attack_id = cr_own.technique_id
OwnRulesJoin(db, t) ==
    LeftJoin({c \in Rules(db.correlation_rules) : t.attack_id = c.technique_id})

\* LEFT JOIN correlation_rules cr_sub ON cr_sub.technique_id LIKE
\* CONCAT(t.attack_id, '.%') AND t.attack_id NOT LIKE '%.%'
SubRulesJoin(db, t) ==
    LeftJoin({c \in Rules(db.correlation_rules) :
                /\ LikeConcatDot(c.technique_id, t.attack_id)
                /\ ~HasDot(t.attack_id)})

\* the joined rule rows of one technique: every own row with every sub row
RulesJoin(db, t) ==
    {[own |-> o, sub |-> u] : o \in OwnRulesJoin(db, t), u \in SubRulesJoin(db, t)}

\* COUNT(DISTINCT CASE WHEN (own.active = 1 OR sub.active = 1) AND
\* (own.status != 'deleted' OR sub.status != 'deleted') AND
\* COALESCE(own.severity, sub.severity) = sev THEN COALESCE(own.id, sub.id) END)
SeverityRulesCount(db, t, sev) ==
    Cardinality({CoalesceId(j.own, j.sub) : j \in {k \in RulesJoin(db, t) :
        SqlAnd(SqlAnd(SqlOr(SqlActive(k.own), SqlActive(k.sub)),
                      SqlOr(SqlNotDeleted(k.own), SqlNotDeleted(k.sub))),
               SqlSeverityIs(k.own, k.sub, sev)) = "T"}})

\* one row of techniques_query
TechniquesQueryRow(db, t, tactic_filter) ==
    LET J == RulesJoin(db, t) IN
    [id |-> t.id,
     attack_id |-> t.attack_id,
     deprecated |-> t.deprecated,
     revoked |-> t.revoked,
     own_total_rules |->
        Cardinality({j.own.id : j \in {k \in J : ~IsNull(k.own)}}),
     own_active_rules |->
        Cardinality({j.own.id : j \in {k \in J :
            ~IsNull(k.own) /\ k.own.active /\ k.own.status # "deleted"}}),
     sub_total_rules |->
        Cardinality({j.sub.id : j \in {k \in J : ~IsNull(k.sub)}}),
     sub_active_rules |->
        Cardinality({j.sub.id : j \in {k \in J :
            ~IsNull(k.sub) /\ k.sub.active /\ k.sub.status # "deleted"}}),
     rules_by_severity |->
        [sev \in SeverityBuckets |-> SeverityRulesCount(db, t, sev)],
     tactic_shortnames |->
        {tac.x_mitre_shortname : tac \in TechniqueTacticRows(db, t, tactic_filter)}]

\* the query without its GROUP BY t.id: a row for every link of a technique
\* to a tactic
techniques_query_PerLink(db, include_deprecated, platform_filter, tactic_filter) ==
    UNION {{[TechniquesQueryRow(db, t, tactic_filter)
                EXCEPT !.tactic_shortnames = {tac.x_mitre_shortname}] :
            tac \in TechniqueTacticRows(db, t, tactic_filter)} :
        t \in TechniquesWhere(db, include_deprecated, platform_filter, tactic_filter)}

\* the rows of techniques_query
techniques_query(db, include_deprecated, platform_filter, tactic_filter) ==
    {TechniquesQueryRow(db, t, tactic_filter) :
        t \in TechniquesWhere(db, include_deprecated, platform_filter, tactic_filter)}

\* the levels with the first threshold read as "more than 5"
CoverageLevel_Above5(active_rules) ==
    IF active_rules > 5 THEN "excellent"
    ELSE IF active_rules >= 3 THEN "good"
    ELSE IF active_rules >= 1 THEN "basic"
    ELSE "none"

\* the coverage level of a technique with active_rules active rules
CoverageLevel(active_rules) ==
    IF active_rules >= 5 THEN "excellent"
    ELSE IF active_rules >= 3 THEN "good"
    ELSE IF active_rules >= 1 THEN "basic"
    ELSE "none"

\* technique_obj["coverage"] with the identifying fields of technique_obj
TechniqueObj(tech) ==
    LET total_rules == tech.own_total_rules + tech.sub_total_rules
        active_rules == tech.own_active_rules + tech.sub_active_rules
    IN [attack_id |-> tech.attack_id,
        deprecated |-> tech.deprecated,
        revoked |-> tech.revoked,
        tactics |-> tech.tactic_shortnames,
        total_rules |-> total_rules,
        active_rules |-> active_rules,
        own_rules |-> tech.own_total_rules,
        sub_rules |-> tech.sub_total_rules,
        rules_by_severity |-> tech.rules_by_severity,
        has_coverage |-> active_rules > 0,
        coverage_level |-> CoverageLevel(active_rules)]

\* all_techniques_dict.values(): the rows that pass the coverage filter
AllTechniques(techniques_raw, coverage_filter) ==
    {TechniqueObj(tech) : tech \in {r \in techniques_raw :
        LET active_rules == r.own_active_rules + r.sub_active_rules IN
        /\ ~(coverage_filter = "covered" /\ active_rules = 0)
        /\ ~(coverage_filter = "uncovered" /\ active_rules > 0)}}

\* tactic_obj with a percentage computed without the test of the count
TacticObj_NoGuard(tactic) ==
    [id |-> tactic.id,
     shortname |-> tactic.x_mitre_shortname,
     techniques_count |-> tactic.techniques_count,
     covered_techniques_count |-> tactic.covered_techniques_count,
     coverage_percentage |->
        RoundPercent(tactic.covered_techniques_count, tactic.techniques_count)]

\* tactic_obj of section 4
TacticObj(tactic) ==
    [id |-> tactic.id,
     shortname |-> tactic.x_mitre_shortname,
     techniques_count |-> tactic.techniques_count,
     covered_techniques_count |-> tactic.covered_techniques_count,
     coverage_percentage |->
        IF tactic.techniques_count > 0
        THEN RoundPercent(tactic.covered_techniques_count, tactic.techniques_count)
        ELSE 0]

\* the statistics block with coverage_levels counted over the covered
\* techniques only
MatrixStatistics_CoveredLevels(all_techniques, tactic_objs) ==
    LET total_techniques == Cardinality(all_techniques)
        covered_techniques == Cardinality({t \in all_techniques : t.has_coverage})
    IN [total_techniques |-> total_techniques,
        parent_techniques |->
            Cardinality({t \in all_techniques : ~HasDot(t.attack_id)}),
        subtechniques |->
            Cardinality({t \in all_techniques : HasDot(t.attack_id)}),
        covered_techniques |-> covered_techniques,
        uncovered_techniques |-> total_techniques - covered_techniques,
        coverage_percentage |->
            IF total_techniques > 0
            THEN RoundPercent(covered_techniques, total_techniques) ELSE 0,
        tactics_total |-> Cardinality(tactic_objs),
        tactics_with_techniques |->
            Cardinality({t \in tactic_objs : t.techniques_count > 0}),
        coverage_levels |->
            [lvl \in {"excellent", "good", "basic", "none"} |->
                Cardinality({t \in all_techniques :
                                t.has_coverage /\ t.coverage_level = lvl})],
        rules_by_severity |->
            [sev \in SeverityBuckets |->
                SumOver(all_techniques,
                        [t \in all_techniques |-> t.rules_by_severity[sev]])]]

\* the statistics block of section 5
MatrixStatistics(all_techniques, tactic_objs) ==
    LET total_techniques == Cardinality(all_techniques)
        covered_techniques == Cardinality({t \in all_techniques : t.has_coverage})
    IN [total_techniques |-> total_techniques,
        parent_techniques |->
            Cardinality({t \in all_techniques : ~HasDot(t.attack_id)}),
        subtechniques |->
            Cardinality({t \in all_techniques : HasDot(t.attack_id)}),
        covered_techniques |-> covered_techniques,
        uncovered_techniques |-> total_techniques - covered_techniques,
        coverage_percentage |->
            IF total_techniques > 0
            THEN RoundPercent(covered_techniques, total_techniques) ELSE 0,
        tactics_total |-> Cardinality(tactic_objs),
        tactics_with_techniques |->
            Cardinality({t \in tactic_objs : t.techniques_count > 0}),
        coverage_levels |->
            [lvl \in {"excellent", "good", "basic", "none"} |->
                Cardinality({t \in all_techniques : t.coverage_level = lvl})],
        rules_by_severity |->
            [sev \in SeverityBuckets |->
                SumOver(all_techniques,
                        [t \in all_techniques |-> t.rules_by_severity[sev]])]]

----------------------------------------------------------------------------
(* GET /api/matrix/statistics : get_matrix_statistics *)

\* the rules joined to a technique by LEFT JOIN ... ON t.attack_id = cr.technique_id
JoinedRules(db, ts) ==
    {c \in Rules(db.correlation_rules) : \E t \in ts : t.attack_id = c.technique_id}

\* EXISTS(SELECT 1 FROM correlation_rules cr WHERE cr.technique_id =
\* t.attack_id AND cr.active = 1 AND cr.status != 'deleted')
ExistsActiveRule(db, t) ==
    \E c \in Rules(db.correlation_rules) :
        c.technique_id = t.attack_id /\ c.active /\ c.status # "deleted"

\* stats_query of get_matrix_statistics
MatrixStatsQuery(db) ==
    LET ts == {t \in db.techniques : ~t.revoked} IN
    [total_techniques |-> Cardinality({t.attack_id : t \in ts}),
     active_techniques |->
        Cardinality({t.attack_id : t \in {x \in ts : ~x.deprecated}}),
     deprecated_techniques |->
        Cardinality({t.attack_id : t \in {x \in ts : x.deprecated}}),
     parent_techniques |->
        Cardinality({t.attack_id : t \in {x \in ts : ~HasDot(x.attack_id)}}),
     subtechniques |->
        Cardinality({t.attack_id : t \in {x \in ts : HasDot(x.attack_id)}}),
     covered_techniques |->
        Cardinality({t.attack_id : t \in {x \in ts : ExistsActiveRule(db, x)}}),
     total_rules |-> Cardinality({c.id : c \in JoinedRules(db, ts)}),
     active_rules |->
        Cardinality({c.id : c \in {r \in JoinedRules(db, ts) :
            r.active /\ r.status # "deleted"}})]

\* the techniques joined to a tactic by tt and the LEFT JOIN techniques with
\* revoked = 0 AND deprecated = 0
TacticTechniques(db, tac) ==
    {t \in db.techniques :
        /\ \E tt \in db.technique_tactics :
              tt.tactic_id = tac.id /\ tt.technique_id = t.id
        /\ ~t.revoked /\ ~t.deprecated}

\* COUNT(DISTINCT tt.technique_id) of a tactic
LinkedTechniqueIds(db, tac) ==
    {tt.technique_id : tt \in {l \in db.technique_tactics : l.tactic_id = tac.id}}

\* the rows of tactics_stats_query, before ORDER BY
MatrixTacticsStatsQuery(db) ==
    {[tactic |-> tac.x_mitre_shortname,
      techniques |-> Cardinality(LinkedTechniqueIds(db, tac)),
      covered |-> Cardinality({t.id : t \in {x \in TacticTechniques(db, tac) :
                        ExistsActiveRule(db, x)}})] : tac \in db.tactics}

\* an element of by_tactics
ByTacticObj(row) ==
    [tactic |-> row.tactic, techniques |-> row.techniques, covered |-> row.covered,
     coverage_percentage |->
        IF row.techniques > 0 THEN RoundPercent(row.covered, row.techniques) ELSE 0]

\* statistics_data["overview"]
MatrixOverview(stats) ==
    [total_techniques |-> stats.total_techniques,
     active_techniques |-> stats.active_techniques,
     deprecated_techniques |-> stats.deprecated_techniques,
     parent_techniques |-> stats.parent_techniques,
     subtechniques |-> stats.subtechniques,
     covered_techniques |-> stats.covered_techniques,
     uncovered_techniques |-> stats.total_techniques - stats.covered_techniques,
     coverage_percentage |->
        IF stats.total_techniques > 0
        THEN RoundPercent(stats.covered_techniques, stats.total_techniques) ELSE 0,
     total_rules |-> stats.total_rules,
     active_rules |-> stats.active_rules]

----------------------------------------------------------------------------
(* GET /api/statistics/tactics : get_tactics_statistics *)

\* the position of a slug in ORDER BY tac.x_mitre_shortname
AlphabeticalRank(shortname) ==
    CASE shortname = "collection" -> 1
      [] shortname = "command-and-control" -> 2
      [] shortname = "credential-access" -> 3
      [] shortname = "custom-tactic" -> 4
      [] shortname = "defense-evasion" -> 5
      [] shortname = "discovery" -> 6
      [] shortname = "execution" -> 7
      [] shortname = "exfiltration" -> 8
      [] shortname = "impact" -> 9
      [] shortname = "initial-access" -> 10
      [] shortname = "lateral-movement" -> 11
      [] shortname = "persistence" -> 12
      [] shortname = "privilege-escalation" -> 13
      [] OTHER -> 14

\* the rows of the query of get_tactics_statistics with the derived fields
TacticsStatisticsQuery(db) ==
    {LET ts == TacticTechniques(db, tac)
         techniques_count == Cardinality(LinkedTechniqueIds(db, tac))
         covered_count ==
            Cardinality({t.attack_id : t \in {x \in ts :
                \E c \in Rules(db.correlation_rules) :
                    c.technique_id = x.attack_id /\ c.active}})
     IN [id |-> tac.id,
         tactic_id |-> tac.x_mitre_shortname,
         techniques_count |-> techniques_count,
         rules_count |-> Cardinality({c.id : c \in JoinedRules(db, ts)}),
         active_rules_count |->
            Cardinality({c.id : c \in {r \in JoinedRules(db, ts) : r.active}}),
         coverage_percent |->
            IF techniques_count > 0
            THEN RoundPercent(covered_count, techniques_count) ELSE 0,
         covered_count |-> covered_count,
         uncovered_count |-> techniques_count - covered_count] : tac \in db.tactics}

----------------------------------------------------------------------------
(* GET /api/statistics/coverage : get_coverage_statistics *)

\* covered, partial, uncovered, total and the percentage over the
\* techniques ts, as overall_query and each row of tactics_query count them
CoverageCounts(db, ts) ==
    LET HasRule(t, active) ==
            \E c \in Rules(db.correlation_rules) :
                c.technique_id = t.attack_id /\ c.active = active
        total == Cardinality({t.attack_id : t \in ts})
        covered == Cardinality({t.attack_id : t \in {x \in ts : HasRule(x, TRUE)}})
        partial ==
            Cardinality({t.attack_id : t \in {x \in ts :
                HasRule(x, FALSE) /\ ~HasRule(x, TRUE)}})
    IN [total |-> total, covered |-> covered, partial |-> partial,
        uncovered |-> total - covered - partial,
        coverage_percent |->
            IF total > 0 THEN RoundPercent(covered, total) ELSE 0]

\* the rows of tactics_query with the derived fields, before ORDER BY
CoverageTacticsQuery(db) ==
    {[tactic_id |-> tac.x_mitre_shortname,
      counts |-> CoverageCounts(db, TacticTechniques(db, tac))] :
        tac \in {x \in db.tactics : TacticTechniques(db, x) # {}}}

----------------------------------------------------------------------------
(* GET /api/statistics/overview : get_overview_statistics *)

\* overview_stats
OverviewStatistics(db) ==
    LET all == db.techniques
        live == {t \in all : ~t.deprecated /\ ~t.revoked}
        active_techniques == Cardinality({t.attack_id : t \in live})
        active_rules ==
            Cardinality({c.id : c \in {r \in JoinedRules(db, all) : r.active}})
        covered_techniques ==
            Cardinality({t.attack_id : t \in {x \in live :
                \E c \in Rules(db.correlation_rules) :
                    c.technique_id = x.attack_id /\ c.active}})
        partially_covered ==
            Cardinality({t.attack_id : t \in {x \in live :
                /\ \E c \in Rules(db.correlation_rules) :
                      c.technique_id = x.attack_id /\ ~c.active
                /\ ~\E c \in Rules(db.correlation_rules) :
                      c.technique_id = x.attack_id /\ c.active}})
        Max0(n) == IF n < 0 THEN 0 ELSE n
    IN [total_techniques |-> Cardinality({t.attack_id : t \in all}),
        active_techniques |-> active_techniques,
        total_tactics |->
            Cardinality({tac.id : tac \in {x \in db.tactics :
                \E tt \in db.technique_tactics : \E t \in all :
                    tt.technique_id = t.id /\ tt.tactic_id = x.id}}),
        total_rules |-> Cardinality({c.id : c \in JoinedRules(db, all)}),
        active_rules |-> active_rules,
        covered_techniques |-> covered_techniques,
        partially_covered |-> partially_covered,
        uncovered_techniques |->
            Max0(active_techniques - covered_techniques - partially_covered),
        coverage_percentage |->
            IF active_techniques > 0
            THEN RoundPercent(covered_techniques, active_techniques) ELSE 0]

----------------------------------------------------------------------------
(* GET /api/techniques/matrix : get_matrix_data *)

\* the CASE tac.x_mitre_shortname ... END sort key of techniques.py
MatrixDataRank(shortname) ==
    CASE shortname = "initial-access" -> 1
      [] shortname = "execution" -> 2
      [] shortname = "persistence" -> 3
      [] shortname = "privilege-escalation" -> 4
      [] shortname = "defense-evasion" -> 5
      [] shortname = "credential-access" -> 6
      [] shortname = "discovery" -> 7
      [] shortname = "lateral-movement" -> 8
      [] shortname = "collection" -> 9
      [] shortname = "exfiltration" -> 10
      [] shortname = "command-and-control" -> 11
      [] shortname = "impact" -> 12
      [] OTHER -> 99

\* the rows of the tactics_query of get_matrix_data, before ORDER BY
MatrixDataTacticsQuery(db, include_deprecated) ==
    {[id |-> tac.id,
      x_mitre_shortname |-> tac.x_mitre_shortname,
      techniques_count |->
        Cardinality({t.attack_id : t \in {x \in db.techniques :
            /\ \E tt \in db.technique_tactics :
                  tt.tactic_id = tac.id /\ tt.technique_id = x.id
            /\ ~x.revoked
            /\ (include_deprecated \/ ~x.deprecated)}})] : tac \in db.tactics}

\* the elements of the techniques list of get_matrix_data
MatrixDataTechniques(db, include_deprecated, platform_filter) ==
    {LET own == {c \in Rules(db.correlation_rules) :
                    t.attack_id = c.technique_id /\ c.status # "deleted"}
         activerulescount == Cardinality({c.id : c \in {r \in own : r.active}})
     IN [attack_id |-> t.attack_id,
         deprecated |-> t.deprecated,
         revoked |-> t.revoked,
         tactics |-> {tt.tactic_id : tt \in {l \in db.technique_tactics :
                        /\ l.technique_id = t.id
                        /\ \E tac \in db.tactics : tac.id = l.tactic_id}},
         rulescount |-> Cardinality({c.id : c \in own}),
         activerulescount |-> activerulescount,
         hascoverage |-> activerulescount > 0] :
     t \in {x \in db.techniques :
        /\ ~x.revoked
        /\ (include_deprecated \/ ~x.deprecated)
        /\ (platform_filter = "NULL" \/ platform_filter \in x.platforms)}}

\* the statistics block of get_matrix_data
MatrixDataStatistics(db) ==
    LET ts == {t \in db.techniques : ~t.revoked}
        joined == {c \in JoinedRules(db, ts) : c.status # "deleted"}
        total_techniques == Cardinality({t.attack_id : t \in ts})
        covered_techniques ==
            Cardinality({t.attack_id : t \in {x \in ts : ExistsActiveRule(db, x)}})
    IN [totaltechniques |-> total_techniques,
        coveredtechniques |-> covered_techniques,
        uncoveredtechniques |-> total_techniques - covered_techniques,
        totalrules |-> Cardinality({c.id : c \in joined}),
        activerules |-> Cardinality({c.id : c \in {r \in joined : r.active}}),
        deprecatedtechniques |->
            Cardinality({t.attack_id : t \in {x \in ts : x.deprecated}}),
        coveragepercentage |->
            IF total_techniques > 0
            THEN RoundPercent2(covered_techniques, total_techniques) ELSE 0]

----------------------------------------------------------------------------
(* Users, sessions and the decorators of utils/auth.py *)

UserIds == {1, 2, 3}

\* the users table: two administrators and an analyst, all active
InitUsers ==
    [u \in UserIds |->
        [role |-> IF u \in {1, 2} THEN "admin" ELSE "analyst",
         is_active |-> TRUE,
         full_name |-> "a"]]

\* a request without Authorization header carries no token
NoToken == 0
\* get_current_user_id() of a request that passed no decorator
NoneId == 0 - 1

\* the k-th token handed out by the server is the number k
Tokens == 1..Len(issued)

\* the Flask session cookie: empty, or as set by login and refresh_session
NoCookie == [user_id |-> NoneId, session_token |-> NoToken]
Cookies ==
    {NoCookie} \cup {[user_id |-> issued[k], session_token |-> k] : k \in Tokens}

\* session lifetimes in days
DaysDefault == 1
DaysRemember == 30

\* datetime.utcnow() is the variable now; datetime.now() is the local time
\* of the server, utc_offset ticks ahead of it
UtcNow == now
LocalNow == now + utc_offset

\* the time zones a server runs in: UTC-12, UTC and UTC+12
UtcOffsets == {0 - 2, 0, 2}

\* the lookup without its is_active filter:
\* UserSessions.query.filter_by(session_token=token)
ActiveSessions_AnyStatus(token) ==
    {s \in user_sessions : s.session_token = token}

\* UserSessions.query.filter_by(session_token=token, is_active=True)
ActiveSessions(token) ==
    {s \in user_sessions : s.session_token = token /\ s.is_active}

Deactivated(s) == (user_sessions \ {s}) \cup {[s EXCEPT !.is_active = FALSE]}

\* login_required: whether the wrapped function is called, the status
\* returned when it is not, the request context g and the sessions table
\* the decorator leaves
Refused(status, sessions) ==
    [passed |-> FALSE, status |-> status, user_id |-> NoneId, role |-> "None",
     sessions |-> sessions]

LoginRequired(token) ==
    IF token = NoToken THEN Refused(401, user_sessions)
    ELSE IF ActiveSessions(token) = {} THEN Refused(401, user_sessions)
    ELSE LET session_obj == CHOOSE s \in ActiveSessions(token) : TRUE IN
         IF LocalNow > session_obj.expires_at
            THEN Refused(401, Deactivated(session_obj))
         ELSE IF session_obj.user_id \notin DOMAIN users
            THEN Refused(401, user_sessions)
         ELSE IF ~users[session_obj.user_id].is_active
            THEN Refused(403, user_sessions)
         ELSE [passed |-> TRUE, status |-> 200,
               user_id |-> session_obj.user_id,
               role |-> users[session_obj.user_id].role,
               sessions |-> user_sessions]

\* the decorator without its test of the role
AdminRequired_Anyone(g) == 200

\* admin_required after login_required has passed: the status it returns
AdminRequired(g) == IF g.role # "admin" THEN 403 ELSE 200

\* require_role(*allowed_roles) after login_required has passed; an
\* argument is a role name or a list of role names.  Refusing builds the
\* message ", ".join(allowed_roles), which raises TypeError on a list; the
\* exception is caught by login_required, which answers 401
RoleName(r) == [kind |-> "str", val |-> r]
RoleList(l) == [kind |-> "list", val |-> l]
RequireRole(g, allowed_roles) ==
    IF (\E i \in DOMAIN allowed_roles : allowed_roles[i] = RoleName(g.role))
          \/ g.role = "admin"
       THEN 200
    ELSE IF \A i \in DOMAIN allowed_roles : allowed_roles[i].kind = "str"
       THEN 403
    ELSE 401

\* the answer of a decorated endpoint whose function was not reached
Rejected(endpoint, token, g, status) ==
    [endpoint |-> endpoint, token |-> token, passed |-> g.passed,
     handler |-> FALSE, status |-> status]
\* the answer of a decorated endpoint whose function ran
Handled(endpoint, token, status) ==
    [endpoint |-> endpoint, token |-> token, passed |-> TRUE,
     handler |-> TRUE, status |-> status]

----------------------------------------------------------------------------
(* The database and the requests that read and write it *)

\* the tables as one value, the state a query is evaluated in
Db == [tactics |-> tactics, techniques |-> techniques,
       technique_tactics |-> technique_tactics,
       correlation_rules |-> correlation_rules]

NoResponse == [endpoint |-> "none"]

\* the techniques tables of the model: at most one of T1 and T1.1 is revoked
\* or deprecated
TechniqueTables ==
    {{TechniqueRow(TechPk(a), a, a = flagged /\ kind = "revoked",
                   a = flagged /\ kind = "deprecated") : a \in AttackIds} :
        flagged \in {T1, T1_1, <<>>}, kind \in {"revoked", "deprecated"}}

PlatformFilters == {"NULL", "Windows"}
CoverageFilters == {"all", "covered", "uncovered"}
TacticFilters == {"NULL", "exfiltration"}

\* the results tactics_query can return, in the order of its ORDER BY
TacticsRaw(db, include_deprecated, platform_filter) ==
    LET rows == tactics_query(db, include_deprecated, platform_filter) IN
    OrderBy(rows, [r \in rows |-> KillChainRank(r.x_mitre_shortname)])

\* the answer of get_ultimate_matrix, pf, cf and tf being the platform,
\* coverage and tactic filters
UltimateMatrix(db, pf, cf, tf, include_deprecated, tactics_raw) ==
    LET platform_filter == pf
        coverage_filter == cf
        tactic_filter == tf
        techniques_raw == techniques_query(db, include_deprecated,
                                           platform_filter, tactic_filter)
        all_techniques == AllTechniques(techniques_raw, coverage_filter)
        tactic_objs == {TacticObj(tactics_raw[i]) : i \in DOMAIN tactics_raw}
    IN [endpoint |-> "get_ultimate_matrix",
        platform |-> platform_filter,
        coverage |-> coverage_filter,
        tactic |-> tactic_filter,
        include_deprecated |-> include_deprecated,
        tactics |-> [i \in DOMAIN tactics_raw |-> TacticObj(tactics_raw[i])],
        techniques |-> all_techniques,
        statistics |-> MatrixStatistics(all_techniques, tactic_objs)]

\* GET /api/matrix/
GetUltimateMatrix(pf, cf, tf, include_deprecated) ==
    /\ pc = "idle"
    /\ \E tactics_raw \in TacticsRaw(Db, include_deprecated, pf) :
          response' = UltimateMatrix(Db, pf, cf, tf, include_deprecated,
                                     tactics_raw)
    /\ pc' = "responded"
    /\ UNCHANGED <<dbVars, authVars>>

\* the rows of the tactics query of get_tactics_only
TacticsOnlyQuery(db) ==
    {[id |-> tac.id,
      shortname |-> tac.x_mitre_shortname,
      techniques_count |-> Cardinality(LinkedTechniqueIds(db, tac))] :
        tac \in db.tactics}

\* GET /api/matrix/tactics
GetTacticsOnly ==
    /\ pc = "idle"
    /\ \E tactics_raw \in
            LET rows == TacticsOnlyQuery(Db) IN
            OrderBy(rows, [r \in rows |-> KillChainRank(r.shortname)]) :
          response' = [endpoint |-> "get_tactics_only",
                       tactics |-> tactics_raw,
                       total |-> Len(tactics_raw)]
    /\ pc' = "responded"
    /\ UNCHANGED <<dbVars, authVars>>

\* GET /api/matrix/statistics
GetMatrixStatistics ==
    /\ pc = "idle"
    /\ \E tactics_stats \in
            LET rows == MatrixTacticsStatsQuery(Db) IN
            OrderBy(rows, [r \in rows |-> 0 - r.techniques]) :
          response' = [endpoint |-> "get_matrix_statistics",
                       overview |-> MatrixOverview(MatrixStatsQuery(Db)),
                       by_tactics |-> [i \in DOMAIN tactics_stats |->
                                        ByTacticObj(tactics_stats[i])]]
    /\ pc' = "responded"
    /\ UNCHANGED <<dbVars, authVars>>

\* GET /api/statistics/tactics
GetTacticsStatistics ==
    /\ pc = "idle"
    /\ \E tactic_stats \in
            LET rows == TacticsStatisticsQuery(Db) IN
            OrderBy(rows, [r \in rows |-> AlphabeticalRank(r.tactic_id)]) :
          response' = [endpoint |-> "get_tactics_statistics",
                       tactics |-> tactic_stats]
    /\ pc' = "responded"
    /\ UNCHANGED <<dbVars, authVars>>

\* the handler followed by a purge of the rules marked deleted
GetOverviewStatistics_Purging ==
    /\ pc = "idle"
    /\ response' = [endpoint |-> "get_overview_statistics",
                    overview |-> OverviewStatistics(Db)]
    /\ pc' = "responded"
    /\ correlation_rules' =
          LET live == {r \in DOMAIN correlation_rules : r.status # "deleted"}
          IN [r \in live |-> correlation_rules[r]]
    /\ UNCHANGED <<tactics, techniques, technique_tactics, comments,
                   authVars>>

\* GET /api/statistics/overview
GetOverviewStatistics ==
    /\ pc = "idle"
    /\ response' = [endpoint |-> "get_overview_statistics",
                    overview |-> OverviewStatistics(Db)]
    /\ pc' = "responded"
    /\ UNCHANGED <<dbVars, authVars>>

\* GET /api/statistics/coverage
GetCoverageStatistics ==
    /\ pc = "idle"
    /\ \E tactics_data \in
            LET rows == CoverageTacticsQuery(Db) IN
            OrderBy(rows, [r \in rows |-> AlphabeticalRank(r.tactic_id)]) :
          response' = [endpoint |-> "get_coverage_statistics",
                       overall |->
                          CoverageCounts(Db, {t \in techniques :
                                                ~t.deprecated /\ ~t.revoked}),
                       tactics |-> tactics_data]
    /\ pc' = "responded"
    /\ UNCHANGED <<dbVars, authVars>>

\* GET /api/techniques/matrix
GetMatrixData(include_deprecated, platform_filter) ==
    /\ pc = "idle"
    /\ \E tactics_data \in
            LET rows == MatrixDataTacticsQuery(Db, include_deprecated) IN
            OrderBy(rows, [r \in rows |-> MatrixDataRank(r.x_mitre_shortname)]) :
          response' = [endpoint |-> "get_matrix_data",
                       include_deprecated |-> include_deprecated,
                       platform |-> platform_filter,
                       tactics |-> tactics_data,
                       techniques |-> MatrixDataTechniques(Db, include_deprecated,
                                                           platform_filter),
                       statistics |-> MatrixDataStatistics(Db)]
    /\ pc' = "responded"
    /\ UNCHANGED <<dbVars, authVars>>

\* POST /api/rules/sync/radar : the synchronisation adds a rule row
SyncWithRadar(token, row) ==
    /\ pc = "idle"
    /\ LET g == LoginRequired(token)
           role_status == RequireRole(g, <<RoleList(<<"admin">>)>>)
       IN /\ user_sessions' = g.sessions
          /\ IF ~g.passed
                THEN /\ response' = Rejected("sync_with_radar", token, g, g.status)
                     /\ UNCHANGED correlation_rules
             ELSE IF role_status # 200
                THEN /\ response' = Rejected("sync_with_radar", token, g, role_status)
                     /\ UNCHANGED correlation_rules
             ELSE /\ BagCardinality(correlation_rules) < MaxRules
                  /\ correlation_rules' = correlation_rules (+) SetToBag({row})
                  /\ response' = Handled("sync_with_radar", token, 200)
    /\ pc' = "responded"
    /\ UNCHANGED <<tactics, techniques, technique_tactics, comments,
                   users, issued, now, utc_offset>>

\* PUT /api/rules/<rule_id> with a status and/or a severity in the body;
\* "NULL" stands for a field the body does not contain
UpdateRule(token, row, status, severity) ==
    /\ pc = "idle"
    /\ BagIn(row, correlation_rules)
    /\ status \in {"NULL", "active"}
    /\ severity \in {"NULL"} \cup Severities
    /\ ~(status = "NULL" /\ severity = "NULL")
    /\ LET g == LoginRequired(token)
           role_status == RequireRole(g, <<RoleList(<<"admin", "analyst">>)>>)
       IN /\ user_sessions' = g.sessions
          /\ IF ~g.passed
                THEN /\ response' = Rejected("update_rule", token, g, g.status)
                     /\ UNCHANGED correlation_rules
             ELSE IF role_status # 200
                THEN /\ response' = Rejected("update_rule", token, g, role_status)
                     /\ UNCHANGED correlation_rules
             ELSE /\ correlation_rules' =
                        (correlation_rules (-) SetToBag({row})) (+)
                        SetToBag({[row EXCEPT
                            !.status = IF status = "NULL" THEN @ ELSE status,
                            !.severity = IF severity = "NULL" THEN @ ELSE severity]})
                  /\ response' = Handled("update_rule", token, 200)
    /\ pc' = "responded"
    /\ UNCHANGED <<tactics, techniques, technique_tactics, comments,
                   users, issued, now, utc_offset>>

\* DELETE /api/rules/<rule_id>
DeleteRule(token, row) ==
    /\ pc = "idle"
    /\ BagIn(row, correlation_rules)
    /\ LET g == LoginRequired(token)
           role_status == RequireRole(g, <<RoleList(<<"admin">>)>>)
       IN /\ user_sessions' = g.sessions
          /\ IF ~g.passed
                THEN /\ response' = Rejected("delete_rule", token, g, g.status)
                     /\ UNCHANGED correlation_rules
             ELSE IF role_status # 200
                THEN /\ response' = Rejected("delete_rule", token, g, role_status)
                     /\ UNCHANGED correlation_rules
             ELSE /\ correlation_rules' = correlation_rules (-) SetToBag({row})
                  /\ response' = Handled("delete_rule", token, 200)
    /\ pc' = "responded"
    /\ UNCHANGED <<tactics, techniques, technique_tactics, comments,
                   users, issued, now, utc_offset>>

\* GET /api/rules/sync/radar/status : reads the last synchronisation from
\* the audit log
GetSyncStatus(token) ==
    /\ pc = "idle"
    /\ LET g == LoginRequired(token)
           role_status == RequireRole(g, <<RoleList(<<"admin", "analyst">>)>>)
       IN /\ user_sessions' = g.sessions
          /\ response' =
                IF ~g.passed
                   THEN Rejected("get_sync_status", token, g, g.status)
                ELSE IF role_status # 200
                   THEN Rejected("get_sync_status", token, g, role_status)
                ELSE Handled("get_sync_status", token, 200)
    /\ pc' = "responded"
    /\ UNCHANGED <<dbVars, users, issued, now, utc_offset>>

----------------------------------------------------------------------------
(* The user endpoints of blueprints/users.py *)

\* POST /api/users/login for the account u
Login(u, password_valid, remember) ==
    /\ pc = "idle"
    /\ IF ~users[u].is_active
          THEN /\ response' = [endpoint |-> "login", status |-> 403]
               /\ UNCHANGED <<user_sessions, issued>>
       ELSE IF ~password_valid
          THEN /\ response' = [endpoint |-> "login", status |-> 401]
               /\ UNCHANGED <<user_sessions, issued>>
       ELSE LET session_token == Len(issued) + 1
                expires_at == UtcNow + TicksPerDay *
                                (IF remember THEN DaysRemember ELSE DaysDefault)
            IN /\ Len(issued) < MaxSessions
               /\ issued' = Append(issued, u)
               /\ user_sessions' =
                    {s \in user_sessions : ~(s.user_id = u /\ ~s.is_active)}
                    \cup {[user_id |-> u, session_token |-> session_token,
                           expires_at |-> expires_at, is_active |-> TRUE,
                           created_at |-> UtcNow]}
               /\ response' = [endpoint |-> "login", status |-> 200,
                               token |-> session_token,
                               remember |-> remember]
    /\ pc' = "responded"
    /\ UNCHANGED <<dbVars, users, now, utc_offset>>

\* POST /api/users/logout sent with the Bearer token and the Flask session
\* cookie the client holds
Logout(token, cookie) ==
    /\ pc = "idle"
    /\ LET user_session == {s \in user_sessions :
                               /\ s.user_id = cookie.user_id
                               /\ s.session_token = cookie.session_token
                               /\ s.is_active}
       IN user_sessions' =
            IF cookie.user_id # NoneId /\ user_session # {}
               THEN Deactivated(CHOOSE s \in user_session : TRUE)
               ELSE user_sessions
    /\ response' = [endpoint |-> "logout", token |-> token, status |-> 200]
    /\ pc' = "responded"
    /\ UNCHANGED <<dbVars, users, issued, now, utc_offset>>

\* POST /api/users/refresh-session sent with the Flask session cookie
RefreshSession(cookie) ==
    /\ pc = "idle"
    /\ LET user_session == {s \in user_sessions :
                               /\ s.user_id = cookie.user_id
                               /\ s.session_token = cookie.session_token
                               /\ s.is_active}
           new_token == Len(issued) + 1
       IN IF cookie.user_id = NoneId \/ cookie.session_token = NoToken
             \/ user_session = {}
             THEN /\ response' = [endpoint |-> "refresh_session", status |-> 401]
                  /\ UNCHANGED <<user_sessions, issued>>
          ELSE /\ Len(issued) < MaxSessions
               /\ issued' = Append(issued, cookie.user_id)
               /\ user_sessions' =
                    Deactivated(CHOOSE s \in user_session : TRUE)
                    \cup {[user_id |-> cookie.user_id,
                           session_token |-> new_token,
                           expires_at |-> UtcNow + TicksPerDay * DaysDefault,
                           is_active |-> TRUE,
                           created_at |-> UtcNow]}
               /\ response' = [endpoint |-> "refresh_session", status |-> 200,
                               token |-> new_token]
    /\ pc' = "responded"
    /\ UNCHANGED <<dbVars, users, now, utc_offset>>

\* GET /api/rules/ : an endpoint behind login_required that only reads
GetRules(token) ==
    /\ pc = "idle"
    /\ LET g == LoginRequired(token)
       IN /\ user_sessions' = g.sessions
          /\ response' = IF g.passed THEN Handled("get_rules", token, 200)
                         ELSE Rejected("get_rules", token, g, g.status)
    /\ pc' = "responded"
    /\ UNCHANGED <<dbVars, users, issued, now, utc_offset>>

\* the JSON bodies of POST /api/users/<user_id>/toggle
ToggleBodies == {"{}", "{active: true}", "{active: false}", "{reason: x}"}

\* active = data.get("active") if data else not user.is_active, then bool()
ToggleActive(body, is_active) ==
    IF body = "{}" THEN ~is_active
    ELSE IF body = "{active: true}" THEN TRUE
    ELSE FALSE

\* the comparison that never recognises the caller's own account
IsOwnAccount_Never(user_id, current_user_id) == FALSE

\* user_id == current_user_id : the request targets the caller's own account
IsOwnAccount(user_id, current_user_id) == user_id = current_user_id

\* POST /api/users/<user_id>/toggle
ToggleUserStatus(token, user_id, body) ==
    /\ pc = "idle"
    /\ LET g == LoginRequired(token)
           current_user_id == g.user_id
       IN /\ user_sessions' = g.sessions
          /\ IF ~g.passed
                THEN /\ response' = Rejected("toggle_user_status", token, g, g.status)
                     /\ UNCHANGED users
             ELSE IF AdminRequired(g) # 200
                THEN /\ response' = Rejected("toggle_user_status", token, g,
                                             AdminRequired(g))
                     /\ UNCHANGED users
             ELSE IF IsOwnAccount(user_id, current_user_id)
                THEN /\ response' = Handled("toggle_user_status", token, 400)
                     /\ UNCHANGED users
             ELSE IF user_id \notin DOMAIN users
                THEN /\ response' = Handled("toggle_user_status", token, 404)
                     /\ UNCHANGED users
             ELSE /\ users' = [users EXCEPT ![user_id].is_active =
                                    ToggleActive(body, @)]
                  /\ response' = Handled("toggle_user_status", token, 200)
    /\ pc' = "responded"
    /\ UNCHANGED <<dbVars, issued, now, utc_offset>>

\* the JSON bodies of PUT /api/users/<user_id>: each field is given or absent
UpdateBodies ==
    [is_active : {"absent", "false"}, role : {"absent", "viewer"},
     full_name : {"absent", "b"}]

\* PUT /api/users/<user_id> : the route has no decorator, so g is empty
\* whatever Authorization header the request carries
UpdateUser(token, user_id, data) ==
    /\ pc = "idle"
    /\ LET current_user_id == NoneId
           current_user_role == "None"
           allowed_fields ==
               {"full_name"} \cup (IF current_user_role = "admin"
                                      THEN {"role", "is_active"} ELSE {})
           updated_fields == {f \in allowed_fields : data[f] # "absent"}
           answer(status) == [endpoint |-> "update_user", token |-> token,
                              user_id |-> user_id, status |-> status]
       IN IF current_user_role # "admin" /\ user_id # current_user_id
             THEN /\ response' = answer(403)
                  /\ UNCHANGED users
          ELSE IF user_id \notin DOMAIN users
             THEN /\ response' = answer(404)
                  /\ UNCHANGED users
          ELSE IF \A f \in DOMAIN data : data[f] = "absent"
             THEN /\ response' = answer(400)
                  /\ UNCHANGED users
          ELSE IF updated_fields = {}
             THEN /\ response' = answer(400)
                  /\ UNCHANGED users
          ELSE /\ users' = [users EXCEPT ![user_id] =
                     [role |-> IF "role" \in updated_fields
                                  THEN data.role ELSE @.role,
                      is_active |-> IF "is_active" \in updated_fields
                                  THEN data.is_active = "true" ELSE @.is_active,
                      full_name |-> IF "full_name" \in updated_fields
                                  THEN data.full_name ELSE @.full_name]]
               /\ response' = answer(200)
    /\ pc' = "responded"
    /\ UNCHANGED <<dbVars, user_sessions, issued, now, utc_offset>>

\* the JSON bodies of POST /api/users/<user_id>/password: the fields given,
\* and whether a current_password that is given is the right one
PasswordBodies ==
    [new_password : {"absent", "short", "long"},
     current_password : {"absent", "wrong", "right"}]

\* POST /api/users/<user_id>/password : the route has no decorator either.
\* The password hashes are not part of the model: a change that succeeds
\* leaves the modelled tables as they are
ChangePassword(token, user_id, data) ==
    /\ pc = "idle"
    /\ LET current_user_id == NoneId
           current_user_role == "None"
           required_fields ==
               {"new_password"} \cup (IF user_id = current_user_id
                                         THEN {"current_password"} ELSE {})
           status ==
               IF current_user_role # "admin" /\ user_id # current_user_id
                  THEN 403
               ELSE IF \A f \in DOMAIN data : data[f] = "absent" THEN 400
               ELSE IF \E f \in required_fields : data[f] = "absent" THEN 400
               ELSE IF user_id \notin DOMAIN users THEN 404
               ELSE IF user_id = current_user_id
                       /\ data.current_password = "wrong" THEN 400
               ELSE IF data.new_password = "short" THEN 400
               ELSE 200
       IN response' = [endpoint |-> "change_password", token |-> token,
                       user_id |-> user_id, status |-> status]
    /\ pc' = "responded"
    /\ UNCHANGED <<dbVars, authVars>>

\* a day passes on the server clock
Tick ==
    /\ pc = "idle"
    /\ now + TicksPerDay <= MaxTime * TicksPerDay
    /\ now' = now + TicksPerDay
    /\ UNCHANGED <<dbVars, users, user_sessions, issued, utc_offset,
                   response, pc>>

\* six hours pass on the server clock
TickSixHours ==
    /\ pc = "idle"
    /\ now + 1 <= MaxTime * TicksPerDay
    /\ now' = now + 1
    /\ UNCHANGED <<dbVars, users, user_sessions, issued, utc_offset,
                   response, pc>>

----------------------------------------------------------------------------
(* The comment endpoints of blueprints/comments.py.  The table comments is *)
(* the sequence of its rows in the order of their autoincrement id; every   *)
(* comment is attached to the technique T1 and leaves comment_type,         *)
(* priority and visibility at their defaults.  Besides its columns a row    *)
(* carries the history field request_user_id, the user whose request        *)
(* inserted it (g.user_id of that request); no endpoint reads it            *)

\* sanitize_input on the texts of the model: tags and the characters
\* < > " ' & are removed
SanitizeInput(text) == IF text = "<>" THEN "" ELSE text

\* the JSON bodies of POST /api/comments: entity_type and entity_id are
\* present and valid; text is absent, a tag without content or a letter;
\* user_id is 0 (as an absent or null user_id, it is falsy), the id 3 of
\* the analyst or the id 4 of no user
CreateCommentBodies == [text : {"absent", "<>", "a"}, user_id : {0, 3, 4}]

\* the JSON bodies of PUT /api/comments/<comment_id>
UpdateCommentBodies == [text : {"absent", "<>", "b"}, status : {"absent", "deleted"}]

\* the answer of a comment endpoint whose function ran for the caller g
CommentAnswer(endpoint, token, g, comment_id, status) ==
    [endpoint |-> endpoint, token |-> token, passed |-> TRUE,
     handler |-> TRUE, status |-> status, user_id |-> g.user_id,
     role |-> g.role, comment_id |-> comment_id]

\* Comments.query.filter(Comments.id == comment_id,
\*                       Comments.status != "deleted").first()
FindComment(comment_id) ==
    IF comment_id \in DOMAIN comments /\ comments[comment_id].status # "deleted"
       THEN comment_id ELSE 0

\* can_edit of update_comment and can_delete of delete_comment
CanModify(g, comment) ==
    \/ g.role = "admin"
    \/ g.role \in {"analyst", "moderator"} /\ comment.created_by = g.user_id
    \/ g.role \in {"user", "viewer"} /\ comment.created_by = g.user_id

\* POST /api/comments
CreateComment(token, data) ==
    /\ pc = "idle"
    /\ LET g == LoginRequired(token)
           user_id == IF data.user_id # 0 THEN data.user_id
                      ELSE g.user_id
           new_id == Len(comments) + 1
           answer(status) == CommentAnswer("create_comment", token, g,
                                           new_id, status)
       IN /\ user_sessions' = g.sessions
          /\ IF ~g.passed
                THEN /\ response' = Rejected("create_comment", token, g,
                                             g.status)
                     /\ UNCHANGED comments
             ELSE IF data.text = "absent"
                THEN /\ response' = answer(400)
                     /\ UNCHANGED comments
             ELSE IF Len(SanitizeInput(data.text)) < 1
                THEN /\ response' = answer(400)
                     /\ UNCHANGED comments
             ELSE IF user_id \notin DOMAIN users
                THEN /\ response' = answer(400)
                     /\ UNCHANGED comments
             ELSE /\ Len(comments) < MaxComments
                  /\ comments' = Append(comments,
                        [id |-> new_id, entity_type |-> "technique",
                         entity_id |-> T1,
                         text |-> SanitizeInput(data.text),
                         author_name |-> users[user_id].full_name,
                         created_by |-> user_id, status |-> "active",
                         created_at |-> UtcNow, updated_at |-> UtcNow,
                         request_user_id |-> g.user_id])
                  /\ response' = answer(201)
    /\ pc' = "responded"
    /\ UNCHANGED <<tactics, techniques, technique_tactics, correlation_rules,
                   users, issued, now, utc_offset>>

\* PUT /api/comments/<comment_id>
UpdateComment(token, comment_id, data) ==
    /\ pc = "idle"
    /\ LET g == LoginRequired(token)
           found == FindComment(comment_id)
           is_admin == g.role = "admin"
           answer(status) == CommentAnswer("update_comment", token, g,
                                           comment_id, status)
           new_text == IF data.text = "absent" THEN comments[found].text
                       ELSE SanitizeInput(data.text)
           new_status == IF data.status # "absent" /\ is_admin
                            THEN data.status ELSE comments[found].status
       IN /\ user_sessions' = g.sessions
          /\ IF ~g.passed
                THEN /\ response' = Rejected("update_comment", token, g,
                                             g.status)
                     /\ UNCHANGED comments
             ELSE IF found = 0
                THEN /\ response' = answer(404)
                     /\ UNCHANGED comments
             ELSE IF g.user_id = NoneId
                THEN /\ response' = answer(401)
                     /\ UNCHANGED comments
             ELSE IF ~CanModify(g, comments[found])
                THEN /\ response' = answer(403)
                     /\ UNCHANGED comments
             ELSE IF data.text = "absent" /\ data.status = "absent"
                THEN /\ response' = answer(400)
                     /\ UNCHANGED comments
             ELSE IF data.text # "absent" /\ Len(new_text) < 1
                THEN /\ response' = answer(400)
                     /\ UNCHANGED comments
             ELSE /\ comments' = [comments EXCEPT
                                    ![found].text = new_text,
                                    ![found].status = new_status,
                                    ![found].updated_at = UtcNow]
                  /\ response' = answer(200)
    /\ pc' = "responded"
    /\ UNCHANGED <<tactics, techniques, technique_tactics, correlation_rules,
                   users, issued, now, utc_offset>>

\* DELETE /api/comments/<comment_id> : a soft delete
DeleteComment(token, comment_id) ==
    /\ pc = "idle"
    /\ LET g == LoginRequired(token)
           found == FindComment(comment_id)
           answer(status) == CommentAnswer("delete_comment", token, g,
                                           comment_id, status)
       IN /\ user_sessions' = g.sessions
          /\ IF ~g.passed
                THEN /\ response' = Rejected("delete_comment", token, g,
                                             g.status)
                     /\ UNCHANGED comments
             ELSE IF found = 0
                THEN /\ response' = answer(404)
                     /\ UNCHANGED comments
             ELSE IF g.user_id = NoneId
                THEN /\ response' = answer(401)
                     /\ UNCHANGED comments
             ELSE IF ~CanModify(g, comments[found])
                THEN /\ response' = answer(403)
                     /\ UNCHANGED comments
             ELSE /\ comments' = [comments EXCEPT
                                    ![found].status = "deleted",
                                    ![found].updated_at = UtcNow]
                  /\ response' = answer(200)
    /\ pc' = "responded"
    /\ UNCHANGED <<tactics, techniques, technique_tactics, correlation_rules,
                   users, issued, now, utc_offset>>

----------------------------------------------------------------------------
(* The coverage specification: the tables change and are queried *)

\* the administrator 1, the analyst 3 and user 2, here with the role
\* viewer, have logged in
LoggedIn ==
    /\ users = [InitUsers EXCEPT ![2].role = "viewer"]
    /\ issued = <<1, 3, 2>>
    /\ user_sessions = {[user_id |-> issued[k], session_token |-> k,
                         expires_at |-> TicksPerDay * DaysDefault,
                         is_active |-> TRUE, created_at |-> 0] :
                            k \in 1..3}
    /\ now = 0
    /\ utc_offset = 0

Init ==
    /\ tactics = TacticRows
    /\ techniques \in TechniqueTables
    /\ technique_tactics = Links
    /\ correlation_rules = EmptyBag
    /\ comments = <<>>
    /\ response = NoResponse
    /\ pc = "idle"
    /\ LoggedIn

\* the response leaves the server: the request is over
SendResponse ==
    /\ pc = "responded"
    /\ pc' = "idle"
    /\ response' = NoResponse
    /\ UNCHANGED <<dbVars, authVars>>

Next ==
    \/ SendResponse
    \/ \E cf \in CoverageFilters, tf \in TacticFilters, d \in BOOLEAN :
          GetUltimateMatrix("NULL", cf, tf, d)
    \/ GetTacticsOnly
    \/ GetMatrixStatistics
    \/ GetTacticsStatistics
    \/ GetOverviewStatistics
    \/ GetCoverageStatistics
    \/ \E d \in BOOLEAN, pf \in PlatformFilters : GetMatrixData(d, pf)
    \/ \E token \in Tokens \cup {NoToken}, row \in SyncRows :
          SyncWithRadar(token, row)
    \/ \E row \in BagToSet(correlation_rules), token \in Tokens \cup {NoToken},
          st \in {"NULL", "active"}, sev \in {"NULL"} \cup Severities :
          UpdateRule(token, row, st, sev)
    \/ \E row \in BagToSet(correlation_rules), token \in Tokens \cup {NoToken} :
          DeleteRule(token, row)
    \/ \E token \in Tokens \cup {NoToken} : GetSyncStatus(token)

Spec == Init /\ [][Next]_vars

----------------------------------------------------------------------------
(* The session specification: users log in and out, sessions expire *)

\* the coverage tables of the specifications that do not touch them
InitDb ==
    /\ tactics = TacticRows
    /\ techniques = {TechniqueRow(TechPk(a), a, FALSE, FALSE) : a \in AttackIds}
    /\ technique_tactics = Links
    /\ correlation_rules = EmptyBag
    /\ comments = <<>>

InitAuth ==
    /\ InitDb
    /\ response = NoResponse
    /\ pc = "idle"
    /\ users = InitUsers
    /\ user_sessions = {}
    /\ issued = <<>>
    /\ now = 0
    /\ utc_offset = 0

\* the users log in and out, and the administrators switch the analyst's
\* account off and on
NextAuth ==
    \/ SendResponse
    \/ \E u \in UserIds, password_valid \in BOOLEAN, remember \in BOOLEAN :
          Login(u, password_valid, remember)
    \/ \E token \in Tokens \cup {NoToken}, cookie \in Cookies :
          Logout(token, cookie)
    \/ \E cookie \in Cookies : RefreshSession(cookie)
    \/ \E token \in Tokens \cup {NoToken} : GetRules(token)
    \/ \E token \in Tokens \cup {NoToken}, body \in ToggleBodies :
          ToggleUserStatus(token, 3, body)
    \/ Tick

SpecAuth == InitAuth /\ [][NextAuth]_vars

----------------------------------------------------------------------------
(* The user administration specification: every user holds a session and *)
(* the accounts are switched and edited                                   *)

InitUsersSpec ==
    /\ InitDb
    /\ response = NoResponse
    /\ pc = "idle"
    /\ users = InitUsers
    /\ issued = <<1, 2, 3>>
    /\ user_sessions = {[user_id |-> issued[k], session_token |-> k,
                         expires_at |-> TicksPerDay * DaysDefault,
                         is_active |-> TRUE, created_at |-> 0] :
                            k \in 1..3}
    /\ now = 0
    /\ utc_offset = 0

NextUsers ==
    \/ SendResponse
    \/ \E token \in Tokens \cup {NoToken} : GetRules(token)
    \/ \E token \in Tokens \cup {NoToken}, user_id \in UserIds \cup {0},
          body \in ToggleBodies : ToggleUserStatus(token, user_id, body)
    \/ \E token \in Tokens \cup {NoToken}, user_id \in UserIds \cup {0},
          data \in UpdateBodies : UpdateUser(token, user_id, data)
    \/ \E token \in Tokens \cup {NoToken}, user_id \in UserIds \cup {0},
          data \in PasswordBodies : ChangePassword(token, user_id, data)
    \/ \E token \in Tokens \cup {NoToken}, cookie \in Cookies :
          Logout(token, cookie)
    \/ Tick

SpecUsers == InitUsersSpec /\ [][NextUsers]_vars

----------------------------------------------------------------------------
(* The expiry specification: the server runs in some time zone, users log *)
(* in and their tokens are presented as the hours pass                    *)

InitExpiry ==
    /\ InitDb
    /\ response = NoResponse
    /\ pc = "idle"
    /\ users = InitUsers
    /\ user_sessions = {}
    /\ issued = <<>>
    /\ now = 0
    /\ utc_offset \in UtcOffsets

NextExpiry ==
    \/ SendResponse
    \/ \E password_valid \in BOOLEAN, remember \in BOOLEAN :
          Login(3, password_valid, remember)
    \/ \E token \in Tokens \cup {NoToken} : GetRules(token)
    \/ TickSixHours

SpecExpiry == InitExpiry /\ [][NextExpiry]_vars

----------------------------------------------------------------------------
(* The coverage-level specification: the matrix is requested over tables *)
(* in which T1 and T1.1 have up to MaxLevelRules active rules each        *)

\* a rule of the technique aid
LevelRule(aid, active) ==
    [technique_id |-> aid, active |-> active, status |-> "active",
     severity |-> "high"]

\* the rule tables: own active rules of T1, an inactive rule of T1 or none,
\* and active rules of T1.1
LevelRuleTables ==
    {LET count == (LevelRule(T1, TRUE) :> own) @@ (LevelRule(T1, FALSE) :> off)
                  @@ (LevelRule(T1_1, TRUE) :> sub)
     IN [r \in {x \in DOMAIN count : count[x] > 0} |-> count[r]] :
        own \in 0..MaxLevelRules, off \in 0..1, sub \in 0..MaxLevelRules}

InitLevels ==
    /\ tactics = TacticRows
    /\ techniques \in TechniqueTables
    /\ technique_tactics = Links
    /\ correlation_rules \in LevelRuleTables
    /\ comments = <<>>
    /\ response = NoResponse
    /\ pc = "idle"
    /\ LoggedIn

NextLevels ==
    \/ SendResponse
    \/ \E pf \in PlatformFilters, cf \in CoverageFilters, tf \in TacticFilters,
          d \in BOOLEAN : GetUltimateMatrix(pf, cf, tf, d)

SpecLevels == InitLevels /\ [][NextLevels]_vars

----------------------------------------------------------------------------
(* The comment specification: the administrator, the analyst and the      *)
(* viewer write, edit and delete comments                                 *)

InitComments ==
    /\ InitDb
    /\ response = NoResponse
    /\ pc = "idle"
    /\ LoggedIn

NextComments ==
    \/ SendResponse
    \/ \E token \in Tokens \cup {NoToken}, data \in CreateCommentBodies :
          CreateComment(token, data)
    \/ \E token \in Tokens \cup {NoToken}, comment_id \in 1..MaxComments,
          data \in UpdateCommentBodies : UpdateComment(token, comment_id, data)
    \/ \E token \in Tokens \cup {NoToken}, comment_id \in 1..MaxComments :
          DeleteComment(token, comment_id)

SpecComments == InitComments /\ [][NextComments]_vars

----------------------------------------------------------------------------
(* The logout specification: users log in and out and present their       *)
(* tokens while the clock stands, so that a session is deactivated by     *)
(* logout only                                                            *)

NextLogout ==
    \/ SendResponse
    \/ \E u \in UserIds, password_valid \in BOOLEAN, remember \in BOOLEAN :
          Login(u, password_valid, remember)
    \/ \E token \in Tokens \cup {NoToken}, cookie \in Cookies :
          Logout(token, cookie)
    \/ \E token \in Tokens \cup {NoToken} : GetRules(token)

SpecLogout == InitAuth /\ [][NextLogout]_vars



----------------------------------------------------------------------------
(* What the specification says a response must contain *)

\* the id x starts with the id p followed by "."
StartsWithDot(x, p) ==
    Len(x) > Len(p) /\ SubSeq(x, 1, Len(p) + 1) = p \o <<".">>

\* the rules attached to the technique id T, with roll-up when T is a parent
RollUpRules(T) ==
    {r \in Rules(correlation_rules) :
        \/ r.technique_id = T
        \/ (\A i \in DOMAIN T : T[i] # ".") /\ StartsWithDot(r.technique_id, T)}

\* the active, non-deleted rules among them
ActiveRollUpRules(T) ==
    {r \in RollUpRules(T) : r.active /\ r.status # "deleted"}

\* the techniques linked to the tactic with id tid
LinkedTechniques(tid) ==
    {t \in techniques : \E l \in technique_tactics :
        l.tactic_id = tid /\ l.technique_id = t.id}

\* a response of GET /api/matrix/ is being returned
MatrixResponse == response.endpoint = "get_ultimate_matrix"

\* C1: for every tactic of a matrix response, covered_techniques_count is
\* the number of techniques linked to the tactic, not revoked and not
\* deprecated unless include_deprecated, that have at least one active,
\* non-deleted rule counting the rules of their sub-techniques
C1_CoveredCountsRollUp ==
    MatrixResponse =>
        \A i \in DOMAIN response.tactics :
            response.tactics[i].covered_techniques_count =
                Cardinality({t \in LinkedTechniques(response.tactics[i].id) :
                    /\ ~t.revoked
                    /\ (response.include_deprecated \/ ~t.deprecated)
                    /\ ActiveRollUpRules(t.attack_id) # {}})

\* C2: a revoked technique is counted nowhere: it is not among the
\* techniques of a matrix response, no tactic total or covered count exceeds
\* the number of linked techniques that are not revoked, and the global
\* total does not exceed the number of techniques that are not revoked
C2_RevokedNeverCounted ==
    /\ MatrixResponse =>
        /\ \A t \in response.techniques : ~t.revoked
        /\ \A i \in DOMAIN response.tactics :
            LET live == Cardinality({t \in LinkedTechniques(response.tactics[i].id) :
                                        ~t.revoked})
            IN /\ response.tactics[i].techniques_count <= live
               /\ response.tactics[i].covered_techniques_count <= live
        /\ response.statistics.total_techniques <=
                Cardinality({t \in techniques : ~t.revoked})
    /\ response.endpoint = "get_tactics_statistics" =>
        \A i \in DOMAIN response.tactics :
            LET live == Cardinality({t \in LinkedTechniques(response.tactics[i].id) :
                                        ~t.revoked})
            IN /\ response.tactics[i].techniques_count <= live
               /\ response.tactics[i].covered_count <= live

\* C3: for every technique of a matrix response, each severity bucket is
\* the number of active, non-deleted rules of that severity among its own
\* rules and, for a parent, the rules of its sub-techniques
C3_SeverityBuckets ==
    MatrixResponse =>
        \A t \in response.techniques : \A sev \in SeverityBuckets :
            t.rules_by_severity[sev] =
                Cardinality({r \in ActiveRollUpRules(t.attack_id) : r.severity = sev})

\* C4: for every technique T of a matrix response, total_rules is the number
\* of rules with technique_id = T plus, only when T contains no ".", the
\* number of rules whose technique_id starts with T followed by "."
C4_TotalRulesRollUp ==
    MatrixResponse =>
        \A t \in response.techniques :
            t.total_rules = Cardinality(RollUpRules(t.attack_id))

\* a matrix response in which the parent T1 has a rule of its own and a
\* rule of its sub-technique T1.1
C4_Witness ==
    /\ MatrixResponse
    /\ \E t \in response.techniques :
          t.attack_id = T1 /\ t.own_rules = 1 /\ t.sub_rules = 1
    /\ \E r \in Rules(correlation_rules) : r.technique_id = T1_1

\* the tables without the rules whose status is 'deleted'
DbWithoutDeleted ==
    [Db EXCEPT !.correlation_rules =
        LET live == {r \in DOMAIN correlation_rules : r.status # "deleted"}
        IN [r \in live |-> correlation_rules[r]]]

\* C5: a rule with status 'deleted' contributes to no count: every count of
\* a response is what it would be if the deleted rules were not in the table
C5_DeletedContributeNothing ==
    /\ MatrixResponse =>
        response.techniques =
            AllTechniques(techniques_query(DbWithoutDeleted,
                                           response.include_deprecated,
                                           response.platform, response.tactic),
                          response.coverage)
    /\ response.endpoint = "get_matrix_statistics" =>
        response.overview = MatrixOverview(MatrixStatsQuery(DbWithoutDeleted))
    /\ response.endpoint = "get_overview_statistics" =>
        response.overview = OverviewStatistics(DbWithoutDeleted)

\* the order in which tactics are to be listed
KillChainOrder ==
    <<"initial-access", "execution", "persistence", "privilege-escalation",
      "defense-evasion", "credential-access", "discovery", "lateral-movement",
      "collection", "command-and-control", "exfiltration", "impact">>

\* the place of a slug in that order; the slugs not in it come last
KillChainPlace(slug) ==
    IF \E i \in DOMAIN KillChainOrder : KillChainOrder[i] = slug
    THEN CHOOSE i \in DOMAIN KillChainOrder : KillChainOrder[i] = slug
    ELSE Len(KillChainOrder) + 1

\* the slugs of a sequence appear in kill-chain order
InKillChainOrder(slugs) ==
    \A i, j \in DOMAIN slugs :
        i < j => KillChainPlace(slugs[i]) <= KillChainPlace(slugs[j])

\* the slugs of the tactic list of the response, in the order returned
TacticSlugs ==
    CASE response.endpoint \in {"get_ultimate_matrix", "get_tactics_only"} ->
            [i \in DOMAIN response.tactics |-> response.tactics[i].shortname]
      [] response.endpoint = "get_matrix_data" ->
            [i \in DOMAIN response.tactics |->
                response.tactics[i].x_mitre_shortname]
      [] response.endpoint = "get_matrix_statistics" ->
            [i \in DOMAIN response.by_tactics |-> response.by_tactics[i].tactic]
      [] response.endpoint = "get_tactics_statistics" ->
            [i \in DOMAIN response.tactics |-> response.tactics[i].tactic_id]
      [] OTHER -> <<>>

\* C6: every response that carries a list of tactics lists them in the
\* kill-chain order initial-access, ..., command-and-control, exfiltration,
\* impact, with the tactics whose slug is not in the order after all of these
C6_KillChainOrderEverywhere == InKillChainOrder(TacticSlugs)

----------------------------------------------------------------------------
(* What the specification says about sessions and accounts *)

\* the endpoints behind login_required
ProtectedEndpoints ==
    {"get_rules", "toggle_user_status", "sync_with_radar", "update_rule",
     "delete_rule"}

\* the token X is the session_token of an active session that is not past
\* its expires_at on the clock login_required reads and whose user exists
\* and is active
ValidToken(X) ==
    \E s \in user_sessions :
        /\ s.session_token = X
        /\ s.is_active
        /\ LocalNow <= s.expires_at
        /\ s.user_id \in DOMAIN users
        /\ users[s.user_id].is_active

\* C8: a request to a protected endpoint passes login_required only if its
\* token is valid when the request arrives, and in every other case the
\* wrapped handler is not executed
C8_LoginRequiredGate ==
    [][(pc = "idle" /\ response'.endpoint \in ProtectedEndpoints) =>
          /\ response'.passed => ValidToken(response'.token)
          /\ ~ValidToken(response'.token) => ~response'.handler]_vars

\* a request passes on the last day of its session while another token has
\* been refused
C8_Witness ==
    /\ response.endpoint \in ProtectedEndpoints
    /\ response.passed /\ response.handler
    /\ \E s \in user_sessions :
          s.session_token = response.token /\ LocalNow = s.expires_at
    /\ \E s \in user_sessions : ~s.is_active

\* C9: once POST /logout has been called with the Bearer token X, a request
\* that presents X is rejected by login_required: in the state the logout
\* leaves behind, login_required does not let X pass
C9_TokenRejectedAfterLogout ==
    (response.endpoint = "logout" /\ response.token # NoToken) =>
        ~LoginRequired(response.token).passed

Caller(token) == IF token \in DOMAIN issued THEN issued[token] ELSE NoneId

\* the request being answered comes from an administrator: its token is
\* valid when the request arrives and belongs to a user with role admin
CallerIsAdmin(token) ==
    /\ ValidToken(token)
    /\ users[Caller(token)].role = "admin"

\* C11: a request from a caller who is not an administrator, the callers
\* without a valid token included, never changes the role or the is_active
\* flag of any user
C11_OnlyAdminsChangeRoleOrStatus ==
    [][(\E u \in UserIds : \/ users'[u].role # users[u].role
                            \/ users'[u].is_active # users[u].is_active)
          => CallerIsAdmin(response'.token)]_vars

\* the analyst's toggle of an administrator's account has been refused with
\* 403 and the account is still active, while an administrator has switched
\* another account off
C11_Witness ==
    /\ response.endpoint = "toggle_user_status"
    /\ response.status = 403
    /\ users[Caller(response.token)].role = "analyst"
    /\ \E u \in UserIds : users[u].is_active /\ users[u].role = "admin"
    /\ \E u \in UserIds : ~users[u].is_active

\* C12: an authenticated user who is not an administrator and sends
\* PUT /api/users/{id} or POST /api/users/{id}/password for the own id is
\* not refused with 403
C12_OwnAccountNotForbidden ==
    (/\ response.endpoint \in {"update_user", "change_password"}
     /\ ValidToken(response.token)
     /\ users[Caller(response.token)].role # "admin"
     /\ response.user_id = Caller(response.token))
        => response.status # 403

\* C13: on PUT /api/rules/{id} and GET /api/rules/sync/radar/status a
\* logged-in analyst passes the role gate, so that the handler runs, and a
\* logged-in viewer is refused with 403
C13_AnalystPassesViewerRefused ==
    (/\ response.endpoint \in {"update_rule", "get_sync_status"}
     /\ ValidToken(response.token))
        => /\ users[Caller(response.token)].role = "analyst"
                => response.handler
           /\ users[Caller(response.token)].role = "viewer"
                => ~response.handler /\ response.status = 403

\* the lifetime in ticks of a session created by login
Lifetime(remember) ==
    TicksPerDay * (IF remember THEN DaysRemember ELSE DaysDefault)

\* C14: the session a login creates lasts 1 day with remember = false and
\* 30 days with remember = true, and a request that presents the token of a
\* session that has not been deactivated, of an active user, passes
\* login_required when less than that time has passed since the login and
\* is refused when more has passed
C14_TokenLifetime ==
    [][/\ (response'.endpoint = "login" /\ response'.status = 200) =>
            \E s \in user_sessions' :
                /\ s.session_token = response'.token
                /\ s.expires_at - s.created_at = Lifetime(response'.remember)
       /\ (pc = "idle" /\ response'.endpoint = "get_rules") =>
            \A s \in user_sessions :
                (/\ s.session_token = response'.token
                 /\ s.is_active
                 /\ users[s.user_id].is_active) =>
                    /\ UtcNow - s.created_at < s.expires_at - s.created_at
                            => response'.passed
                    /\ UtcNow - s.created_at > s.expires_at - s.created_at
                            => ~response'.passed]_vars

----------------------------------------------------------------------------
(* What the specification says about deprecated techniques, the global *)
(* statistics and the coverage levels                                   *)

\* the tables without the deprecated techniques and their links to tactics
DbWithoutDeprecated ==
    [Db EXCEPT
        !.techniques = {t \in techniques : ~t.deprecated},
        !.technique_tactics =
            {l \in technique_tactics :
                \E t \in techniques : t.id = l.technique_id /\ ~t.deprecated}]

\* C15: without include_deprecated = true a deprecated technique is counted
\* in no coverage statistic: the technique list, the counts of every tactic
\* and the global totals and percentage are what they would be if the
\* deprecated techniques were not in the tables
C15_DeprecatedCountedNowhere ==
    /\ (MatrixResponse /\ ~response.include_deprecated) =>
        /\ response.techniques =
              AllTechniques(techniques_query(DbWithoutDeprecated, FALSE,
                                             response.platform, response.tactic),
                            response.coverage)
        /\ \A i \in DOMAIN response.tactics :
              \E tac \in tactics :
                 response.tactics[i] =
                    TacticObj(TacticsQueryRow(DbWithoutDeprecated, tac, FALSE,
                                              response.platform))
    /\ response.endpoint = "get_matrix_statistics" =>
        LET without == MatrixOverview(MatrixStatsQuery(DbWithoutDeprecated)) IN
        /\ response.overview.total_techniques = without.total_techniques
        /\ response.overview.covered_techniques = without.covered_techniques
        /\ response.overview.uncovered_techniques = without.uncovered_techniques
        /\ response.overview.coverage_percentage = without.coverage_percentage
        /\ {response.by_tactics[i] : i \in DOMAIN response.by_tactics} =
              {ByTacticObj(row) :
                  row \in MatrixTacticsStatsQuery(DbWithoutDeprecated)}

\* the techniques a matrix response has to count: those that pass the
\* filters of the request, each of them once
CountedTechniques ==
    {t \in techniques :
        /\ ~t.revoked
        /\ (response.include_deprecated \/ ~t.deprecated)
        /\ (response.platform = "NULL" \/ response.platform \in t.platforms)
        /\ \E l \in technique_tactics : \E tac \in tactics :
              /\ l.technique_id = t.id /\ l.tactic_id = tac.id
              /\ (response.tactic = "NULL"
                    \/ tac.x_mitre_shortname = response.tactic)
        /\ (response.coverage = "covered"
                => ActiveRollUpRules(t.attack_id) # {})
        /\ (response.coverage = "uncovered"
                => ActiveRollUpRules(t.attack_id) = {})}

\* C16: in the global statistics of a matrix response a technique linked to
\* several tactics is counted exactly once: total, covered and uncovered
\* are numbers of techniques, not of links between techniques and tactics
C16_TechniqueCountedOnce ==
    MatrixResponse =>
        /\ response.statistics.total_techniques = Cardinality(CountedTechniques)
        /\ response.statistics.covered_techniques =
              Cardinality({t \in CountedTechniques :
                            ActiveRollUpRules(t.attack_id) # {}})
        /\ response.statistics.uncovered_techniques =
              Cardinality({t \in CountedTechniques :
                            ActiveRollUpRules(t.attack_id) = {}})

\* a matrix response that lists the covered technique T1 with its two
\* tactics beside an uncovered technique
C16_Witness ==
    /\ MatrixResponse
    /\ \E t \in response.techniques :
          t.attack_id = T1 /\ Cardinality(t.tactics) = 2 /\ t.has_coverage
    /\ response.statistics.covered_techniques >= 1
    /\ response.statistics.uncovered_techniques >= 1

\* the pairs of a technique count and the coverage percentage computed
\* from it that a response carries
PercentagePairs ==
    CASE MatrixResponse ->
            {<<response.tactics[i].techniques_count,
               response.tactics[i].coverage_percentage>> :
                    i \in DOMAIN response.tactics}
            \cup {<<response.statistics.total_techniques,
                    response.statistics.coverage_percentage>>}
      [] response.endpoint = "get_matrix_statistics" ->
            {<<response.by_tactics[i].techniques,
               response.by_tactics[i].coverage_percentage>> :
                    i \in DOMAIN response.by_tactics}
            \cup {<<response.overview.total_techniques,
                    response.overview.coverage_percentage>>}
      [] response.endpoint = "get_tactics_statistics" ->
            {<<response.tactics[i].techniques_count,
               response.tactics[i].coverage_percent>> :
                    i \in DOMAIN response.tactics}
      [] response.endpoint = "get_overview_statistics" ->
            {<<response.overview.active_techniques,
               response.overview.coverage_percentage>>}
      [] response.endpoint = "get_matrix_data" ->
            {<<response.statistics.totaltechniques,
               response.statistics.coveragepercentage>>}
      [] response.endpoint = "get_coverage_statistics" ->
            {<<response.tactics[i].counts.total,
               response.tactics[i].counts.coverage_percent>> :
                    i \in DOMAIN response.tactics}
            \cup {<<response.overall.total, response.overall.coverage_percent>>}
      [] OTHER -> {}

\* C17: no coverage percentage is computed by a division by zero, and a
\* percentage over a count of 0 techniques is 0
C17_NoDivisionByZero ==
    \A p \in PercentagePairs :
        /\ p[2] # ZeroDivisionError
        /\ p[1] = 0 => p[2] = 0

\* a matrix response with a tactic without techniques, a tactic with a
\* percentage above 0 and, by the coverage filter, no technique at all
C17_Witness ==
    /\ MatrixResponse
    /\ \E i \in DOMAIN response.tactics :
          response.tactics[i].techniques_count = 0
    /\ \E i \in DOMAIN response.tactics :
          response.tactics[i].coverage_percentage > 0
    /\ response.statistics.total_techniques = 0

\* C18: the coverage_level of every technique of a matrix response is
\* 'excellent' exactly when it has 5 or more active rules, 'good' exactly
\* when it has 3 or 4, 'basic' exactly when it has 1 or 2 and 'none' exactly
\* when it has none, the active rules being its own and, for a parent,
\* those of its sub-techniques
C18_CoverageLevelThresholds ==
    MatrixResponse =>
        \A t \in response.techniques :
            LET n == Cardinality(ActiveRollUpRules(t.attack_id)) IN
            /\ t.coverage_level = "excellent" <=> n >= 5
            /\ t.coverage_level = "good" <=> n \in {3, 4}
            /\ t.coverage_level = "basic" <=> n \in {1, 2}
            /\ t.coverage_level = "none" <=> n = 0

\* a matrix response in which T1 is excellent with exactly 5 active rules,
\* 3 of them rules of T1.1, which is good
C18_Witness ==
    /\ MatrixResponse
    /\ \E t \in response.techniques :
          /\ t.attack_id = T1 /\ t.coverage_level = "excellent"
          /\ t.active_rules = 5
    /\ \E t \in response.techniques :
          /\ t.attack_id = T1_1 /\ t.coverage_level = "good"
          /\ t.active_rules = 3

\* C19: in the statistics of every matrix response, whatever the platform,
\* tactic, coverage and include_deprecated filters, the counts excellent +
\* good + basic + none of coverage_levels add up to total_techniques
C19_CoverageLevelsAddUp ==
    MatrixResponse =>
        response.statistics.coverage_levels["excellent"]
          + response.statistics.coverage_levels["good"]
          + response.statistics.coverage_levels["basic"]
          + response.statistics.coverage_levels["none"]
            = response.statistics.total_techniques

\* a matrix response under a platform filter whose techniques are spread
\* over three levels, one of them 'none'
C19_Witness ==
    /\ MatrixResponse
    /\ response.platform = "Windows"
    /\ response.statistics.total_techniques = 2
    /\ response.statistics.coverage_levels["excellent"] = 1
    /\ response.statistics.coverage_levels["basic"] = 1
    /\ \E t \in techniques : t.attack_id = T11 /\ ~t.revoked

\* the endpoints that serve the matrix, coverage and statistics requests
ReadEndpoints ==
    {"get_ultimate_matrix", "get_tactics_only", "get_matrix_statistics",
     "get_tactics_statistics", "get_overview_statistics",
     "get_coverage_statistics", "get_matrix_data"}

\* C20: serving a matrix, coverage or statistics request changes no row of
\* the techniques, tactics, technique_tactics and correlation_rules tables
C20_ReadsChangeNoRow ==
    [][(pc = "idle" /\ response'.endpoint \in ReadEndpoints) =>
          /\ tactics' = tactics
          /\ techniques' = techniques
          /\ technique_tactics' = technique_tactics
          /\ correlation_rules' = correlation_rules]_vars

\* a coverage request has been served over a table that holds a rule
\* marked deleted beside an active one
C20_Witness ==
    /\ response.endpoint \in ReadEndpoints
    /\ \E r \in Rules(correlation_rules) : r.status = "deleted"
    /\ \E r \in Rules(correlation_rules) : r.status # "deleted" /\ r.active

----------------------------------------------------------------------------
(* Comments: who may edit and delete *)

\* the step is a request of a caller who is not an administrator that
\* update_comment or delete_comment answered with success
NonAdminModified(r) == r.endpoint \in {"update_comment", "delete_comment"} /\ r.handler /\ r.status = 200 /\ r.role # "admin"

\* C21: whenever update_comment or delete_comment succeeds for a caller who
\* is not an administrator, the comment was created by that same caller:
\* the request that inserted the row was the caller's own
C21_NonAdminModifiesOwnCommentOnly == [][NonAdminModified(response') => comments[response'.comment_id].request_user_id = response'.user_id]_vars

----------------------------------------------------------------------------
(* Sessions: what logout leaves behind *)

\* C22: logout does not remove the session row: every row of user_sessions
\* is still there after the next request, and a row deactivated by logout
\* stays with is_active = false
C22_LoggedOutRowStays == [][\A s \in user_sessions : \E t \in user_sessions' : t.session_token = s.session_token /\ (~s.is_active => ~t.is_active)]_vars

----------------------------------------------------------------------------
(* User administration: the toggle without the active parameter *)

\* the JSON bodies of the toggle request that do not specify active: the
\* empty one and the one with only another field
BodiesWithoutActive == {"{}", "{reason: x}"}

\* C23: a toggle request of an administrator that does not specify the
\* active parameter and is answered with success inverts the is_active of
\* the target user, whether the body is empty or has only other fields
C23_ToggleWithoutActiveInverts == [][\A token \in Tokens, user_id \in UserIds, body \in BodiesWithoutActive : (ToggleUserStatus(token, user_id, body) /\ response'.handler /\ response'.status = 200) => users'[user_id].is_active = ~users[user_id].is_active]_vars

====
